---- MODULE Spec2Model ----
(***************************************************************************)
(* Model of src/app.py, the smart-meter digital twin.                      *)
(*                                                                         *)
(* The script is re-executed top to bottom on every "tick" (a Streamlit    *)
(* script run).  st.session_state survives between runs; script globals do *)
(* not.  on_message runs on the MQTT client's network thread, concurrently *)
(* with the script.                                                        *)
(*                                                                         *)
(* Units.  Python floats are modelled by scaled integers:                  *)
(*   voltage  in volts            230.0 V  -> 230                          *)
(*   current  in tenths of ampere   5.0 A  -> 50,   0.2 A -> 2             *)
(*   power    in tenths of watt   1150.0 W -> 11500                        *)
(*   cost     in thousandths of a rupee                                    *)
(*   scores   in hundredths       0.05 -> 5, 0.98 -> 98, 0.2 -> 20         *)
(***************************************************************************)
EXTENDS Integers, Sequences, FiniteSets, TLC

(***************************************************************************)
(* Bounds of the exploration.                                              *)
(***************************************************************************)
\* Spec: few ticks, every interleaving of messages and interactions.
MaxTicks == 3
MaxMsgs == 2
MaxInteractions == 2
\* SpecLong: enough ticks to fill the history deque and evict from it.
LongTicks == 52
LongInteractions == 3

(***************************************************************************)
(* Program constants.                                                      *)
(***************************************************************************)
\* deque(maxlen=50)
HistoryMaxLen == 50
\* st.session_state.live_voltage = 230.0, voltage_input = 230.0
DefaultVoltage == 230
\* st.session_state.live_current = 5.0, current_input = 5.0 (tenths of A)
DefaultCurrent == 50
\* the thresholds the specification names (no counterpart in app.py)
LowThreshold == 180
HighThreshold == 250

\* Line 68: the options of the "Data Source" radio (their emoji left out).
MANUAL == "Manual Control"
SCENARIOS == "Demo Scenarios"
LIVE == "LIVE HARDWARE"
Modes == {MANUAL, SCENARIOS, LIVE}

\* Lines 81-82.
ScenarioNames == {"Normal Operation", "Power Theft (Bypass)", "Wire Cut (Low Voltage)", "Overload Surge"}

\* Positions of the two sliders the exploration moves them to
\* (the voltage slider ranges over 0..300, the current slider over 0.0..20.0).
SliderVoltages == {179, 230, 251}
SliderCurrents == {50, 200}

(***************************************************************************)
(* MQTT payloads.  A payload is either not JSON at all, or a JSON object   *)
(* whose 'voltage' and 'current' members are each one of                   *)
(*   <<"missing", 0>>   the key is absent                                  *)
(*   <<"number", n>>    a JSON number                                      *)
(*   <<"numstr", n>>    a JSON string that float() parses, e.g. "240"      *)
(*   <<"text", 0>>      a JSON string that float() rejects                 *)
(***************************************************************************)
PayloadVoltages == {15, 240}
PayloadCurrents == {70}

Fields(nums) == {<<"missing", 0>>, <<"text", 0>>} \cup ({"number", "numstr"} \X nums)

Payloads == [json : {FALSE}, voltage : {<<"missing", 0>>}, current : {<<"missing", 0>>}] \cup [json : {TRUE}, voltage : Fields(PayloadVoltages), current : Fields(PayloadCurrents)]

\* data['voltage'] / data['current']: KeyError when the key is absent.
HasKey(field) == field[1] # "missing"

\* float(x): accepts numbers and numeric strings, raises on anything else.
FloatOk(field) == field[1] \in {"number", "numstr"}
FloatValue(field) == field[2]

\* The statement `st.session_state.live_x = float(data[k])` completes.
AssignOk(field) == HasKey(field) /\ FloatOk(field)

\* A payload the specification calls well-formed.
ValidPayload(p) == p.json /\ AssignOk(p.voltage) /\ AssignOk(p.current)

(***************************************************************************)
(* Pure helpers of the script.                                             *)
(***************************************************************************)
\* Lines 83-90: the scenario table.
ScenarioSample(s) == CASE s = "Normal Operation" -> <<230, 50>> [] s = "Power Theft (Bypass)" -> <<230, 2>> [] s = "Wire Cut (Low Voltage)" -> <<15, 0>> [] OTHER -> <<220, 350>>

\* A slip at line 99: the current is added, not multiplied.
PowerCalcSum(v, c) == v + c

\* Line 99.
PowerCalc(v, c) == v * c

\* Line 100: (power_calc / 1000) * 8 * 24 * 30, in thousandths of a rupee.
EstCost(p) == p * 576

\* A bounded buffer that refuses the new entry when full, keeping the oldest.
DequeAppendKeepOldest(d, x) == IF Len(d) < HistoryMaxLen THEN Append(d, x) ELSE d

\* deque.append on a deque with maxlen: drops the oldest entry when full.
DequeAppend(d, x) == IF Len(d) < HistoryMaxLen THEN Append(d, x) ELSE Append(Tail(d), x)

\* Line 106: model.predict returns 1 (inlier) or -1 (outlier).
\* The model loaded from energy_model.pkl (line 12) is opaque: either label
\* for any sample.  The fallback of lines 14-16 is an IsolationForest fitted
\* on 100 identical rows (230, 5): no tree can split, so every sample gets
\* the score of the training rows, decision_function is 0 and predict,
\* which labels only negative values as outliers, returns 1 for any sample.
PredictOutcomes(loaded) == IF loaded THEN {1, -1} ELSE {1}

\* Line 107.
TheftProb(p) == IF p = 1 THEN 5 ELSE 98

\* A slip at line 142: the two branches exchanged.
HealthExchanged(p) == IF p = 1 THEN 20 ELSE 100

\* Line 142.
Health(p) == IF p = 1 THEN 100 ELSE 20

\* Lines 130-135: "SYSTEM SECURE" is shown with green, "THREAT DETECTED" with red.
StatusColor(p) == IF p = 1 THEN "green" ELSE "red"

(***************************************************************************)
(* State.                                                                  *)
(***************************************************************************)
VARIABLES
  model_loaded,     \* joblib.load succeeded (lines 11-16)
  history_power,    \* st.session_state.history_power
  mqtt_connected,   \* st.session_state.mqtt_connected
  live_voltage,     \* st.session_state.live_voltage
  live_current,     \* st.session_state.live_current
  mode,             \* the "Data Source" radio
  slider_voltage,   \* the "Grid Voltage" slider
  slider_current,   \* the "Load Current" slider
  scenario,         \* the "Select Attack / Fault" selectbox
  voltage_input,    \* script globals of the running tick; 0 when not yet bound
  current_input,
  power_calc,
  est_cost,
  prediction,
  theft_prob,
  status_color,
  health,
  pc,               \* position of the script run
  h_pc,             \* position of on_message on the network thread
  h_current,        \* data['current'] of the message being handled
  \* history variables, used only to state the properties
  ticks,            \* script runs started
  msgs,             \* messages delivered
  inters,           \* widget interactions
  trigger,          \* what started the running tick
  appended,         \* every value ever appended to history_power
  connected_before, \* mqtt_connected when the running tick began
  attempted,        \* the running tick executed the body of line 55's if
  subscriptions,    \* clients that subscribed and started their loop
  pre_live,         \* (live_voltage, live_current) when the message being handled arrived
  h_changed,        \* the last handled message left (live_voltage, live_current) changed
  last_malformed,   \* the last message delivered was not a valid payload
  h_exit,           \* how on_message last ended: "none", "normal", "caught", "raised"
  valid_pairs,      \* the pairs carried by the valid messages so far
  last_valid,       \* the pair of the most recent valid message, or the default
  h_during_read     \* on_message ran since the tick began reading live_*

session == <<history_power, mqtt_connected, live_voltage, live_current>>
widgets == <<mode, slider_voltage, slider_current, scenario>>
globals == <<voltage_input, current_input, power_calc, est_cost, prediction, theft_prob, status_color, health>>
handler == <<h_pc, h_current>>
ghosts == <<ticks, msgs, inters, trigger, appended, connected_before, attempted, subscriptions, pre_live, h_changed, last_malformed, h_exit, valid_pairs, last_valid, h_during_read>>
vars == <<model_loaded, session, widgets, globals, pc, handler, ghosts>>

\* Lines 10-41 and the first script run about to reach line 55.
Init ==
  /\ model_loaded \in BOOLEAN
  /\ history_power = <<>>
  /\ mqtt_connected = FALSE
  /\ live_voltage = DefaultVoltage
  /\ live_current = DefaultCurrent
  /\ mode = MANUAL
  /\ slider_voltage = 230
  /\ slider_current = 50
  /\ scenario = "Normal Operation"
  /\ voltage_input = 0 /\ current_input = 0 /\ power_calc = 0 /\ est_cost = 0
  /\ prediction = 0 /\ theft_prob = 0 /\ status_color = "" /\ health = 0
  /\ pc = "guard"
  /\ h_pc = "idle"
  /\ h_current = <<"missing", 0>>
  /\ ticks = 1 /\ msgs = 0 /\ inters = 0
  /\ trigger = "load"
  /\ appended = <<>>
  /\ connected_before = FALSE
  /\ attempted = FALSE
  /\ subscriptions = 0
  /\ pre_live = <<DefaultVoltage, DefaultCurrent>>
  /\ h_changed = FALSE
  /\ last_malformed = FALSE
  /\ h_exit = "none"
  /\ valid_pairs = {}
  /\ last_valid = <<DefaultVoltage, DefaultCurrent>>
  /\ h_during_read = FALSE

(***************************************************************************)
(* The script run (one tick), cut where it touches state shared with       *)
(* on_message.                                                             *)
(***************************************************************************)
\* Lines 55-62 with the guard true: outcome "connect" / "subscribe" names the
\* call that raises (line 63 swallows it), "ok" reaches line 62.
ConnectOutcomes == {"connect", "subscribe", "ok"}

\* A slip in lines 56-62: the flag is set before connect and subscribe ran.
ConnectAttemptFlagFirst(outcome) ==
  /\ pc = "guard"
  /\ ~mqtt_connected
  /\ mqtt_connected' = TRUE
  /\ subscriptions' = IF outcome = "ok" THEN subscriptions + 1 ELSE subscriptions
  /\ attempted' = TRUE
  /\ pc' = "source"
  /\ UNCHANGED <<model_loaded, history_power, live_voltage, live_current, widgets, globals, handler>>
  /\ UNCHANGED <<ticks, msgs, inters, trigger, appended, connected_before, pre_live, h_changed, last_malformed, h_exit, valid_pairs, last_valid, h_during_read>>

ConnectAttempt(outcome) ==
  /\ pc = "guard"
  /\ ~mqtt_connected
  /\ mqtt_connected' = (outcome = "ok")
  /\ subscriptions' = IF outcome = "ok" THEN subscriptions + 1 ELSE subscriptions
  /\ attempted' = TRUE
  /\ pc' = "source"
  /\ UNCHANGED <<model_loaded, history_power, live_voltage, live_current, widgets, globals, handler>>
  /\ UNCHANGED <<ticks, msgs, inters, trigger, appended, connected_before, pre_live, h_changed, last_malformed, h_exit, valid_pairs, last_valid, h_during_read>>

\* Line 55 with the guard false.
ConnectSkip ==
  /\ pc = "guard"
  /\ mqtt_connected
  /\ attempted' = FALSE
  /\ pc' = "source"
  /\ UNCHANGED <<model_loaded, session, widgets, globals, handler>>
  /\ UNCHANGED <<ticks, msgs, inters, trigger, appended, connected_before, subscriptions, pre_live, h_changed, last_malformed, h_exit, valid_pairs, last_valid, h_during_read>>

\* Lines 70-77.
SourceManual ==
  /\ pc = "source"
  /\ mode = MANUAL
  /\ voltage_input' = slider_voltage
  /\ current_input' = slider_current
  /\ pc' = "calc"
  /\ UNCHANGED <<model_loaded, session, widgets, power_calc, est_cost, prediction, theft_prob, status_color, health, handler, ghosts>>

\* Lines 70-71, 79-90.
SourceScenario ==
  /\ pc = "source"
  /\ mode = SCENARIOS
  /\ voltage_input' = ScenarioSample(scenario)[1]
  /\ current_input' = ScenarioSample(scenario)[2]
  /\ pc' = "calc"
  /\ UNCHANGED <<model_loaded, session, widgets, power_calc, est_cost, prediction, theft_prob, status_color, health, handler, ghosts>>

\* Lines 70-71, 92-95: the read of live_voltage.
SourceLiveVoltage ==
  /\ pc = "source"
  /\ mode = LIVE
  /\ voltage_input' = live_voltage
  /\ current_input' = DefaultCurrent
  /\ pc' = "line96"
  /\ h_during_read' = FALSE
  /\ UNCHANGED <<model_loaded, session, widgets, power_calc, est_cost, prediction, theft_prob, status_color, health, handler>>
  /\ UNCHANGED <<ticks, msgs, inters, trigger, appended, connected_before, attempted, subscriptions, pre_live, h_changed, last_malformed, h_exit, valid_pairs, last_valid>>

\* Line 96: the read of live_current.
SourceLiveCurrent ==
  /\ pc = "line96"
  /\ current_input' = live_current
  /\ pc' = "calc"
  /\ UNCHANGED <<model_loaded, session, widgets, voltage_input, power_calc, est_cost, prediction, theft_prob, status_color, health, handler, ghosts>>

\* Lines 99-107 and 130-142: metrics, history, prediction, scores.
Calculate(p) ==
  /\ pc = "calc"
  /\ power_calc' = PowerCalc(voltage_input, current_input)
  /\ est_cost' = EstCost(power_calc')
  /\ history_power' = DequeAppend(history_power, power_calc')
  /\ appended' = Append(appended, power_calc')
  /\ prediction' = p
  /\ theft_prob' = TheftProb(p)
  /\ status_color' = StatusColor(p)
  /\ health' = Health(p)
  /\ pc' = "refresh"
  /\ UNCHANGED <<model_loaded, mqtt_connected, live_voltage, live_current, widgets, voltage_input, current_input, handler>>
  /\ UNCHANGED <<ticks, msgs, inters, trigger, connected_before, attempted, subscriptions, pre_live, h_changed, last_malformed, h_exit, valid_pairs, last_valid, h_during_read>>

\* A slip at line 198: the rerun is not guarded by the mode.
AutoRefreshAnyMode(m) == TRUE

\* Line 198: the mode the script re-arms itself in.
AutoRefresh(m) == m = LIVE

\* Lines 198-199, or the end of the script.
Refresh ==
  /\ pc = "refresh"
  /\ pc' = IF AutoRefresh(mode) THEN "sleep" ELSE "idle"
  /\ UNCHANGED <<model_loaded, session, widgets, globals, handler, ghosts>>

\* A new script run: fresh globals, session state and widget state kept.
NewRun(why) ==
  /\ pc' = "guard"
  /\ ticks' = ticks + 1
  /\ trigger' = why
  /\ connected_before' = mqtt_connected
  /\ attempted' = FALSE
  /\ voltage_input' = 0 /\ current_input' = 0 /\ power_calc' = 0 /\ est_cost' = 0
  /\ prediction' = 0 /\ theft_prob' = 0 /\ status_color' = "" /\ health' = 0
  /\ UNCHANGED <<model_loaded, session, handler>>
  /\ UNCHANGED <<msgs, appended, subscriptions, pre_live, h_changed, last_malformed, h_exit, valid_pairs, last_valid, h_during_read>>

\* Line 200: st.rerun() after the sleep.
Rerun(capT) ==
  /\ pc = "sleep"
  /\ ticks < capT
  /\ NewRun("rerun")
  /\ UNCHANGED <<widgets, inters>>

(***************************************************************************)
(* The operator's interactions: each changes one widget and makes          *)
(* Streamlit run the script again.  A widget the script did not render in  *)
(* the last run comes back with its default.                               *)
(***************************************************************************)
CanInteract(capT, capI) == pc \in {"idle", "sleep"} /\ ticks < capT /\ inters < capI

ChangeMode(m, capT, capI) ==
  /\ CanInteract(capT, capI)
  /\ m # mode
  /\ mode' = m
  /\ slider_voltage' = 230
  /\ slider_current' = 50
  /\ scenario' = "Normal Operation"
  /\ inters' = inters + 1
  /\ NewRun("interaction")

MoveVoltageSlider(v, capT, capI) ==
  /\ CanInteract(capT, capI)
  /\ mode = MANUAL
  /\ v # slider_voltage
  /\ slider_voltage' = v
  /\ inters' = inters + 1
  /\ NewRun("interaction")
  /\ UNCHANGED <<mode, slider_current, scenario>>

MoveCurrentSlider(c, capT, capI) ==
  /\ CanInteract(capT, capI)
  /\ mode = MANUAL
  /\ c # slider_current
  /\ slider_current' = c
  /\ inters' = inters + 1
  /\ NewRun("interaction")
  /\ UNCHANGED <<mode, slider_voltage, scenario>>

SelectScenario(s, capT, capI) ==
  /\ CanInteract(capT, capI)
  /\ mode = SCENARIOS
  /\ s # scenario
  /\ scenario' = s
  /\ inters' = inters + 1
  /\ NewRun("interaction")
  /\ UNCHANGED <<mode, slider_voltage, slider_current>>

(***************************************************************************)
(* on_message, on the client's network thread (started by loop_start, so   *)
(* only once a client subscribed).  The thread handles one message at a    *)
(* time.                                                                   *)
(***************************************************************************)
\* Lines 48-50 for a message that arrives: parse, then assign live_voltage.
\* Any exception ends the handler through line 52-53.
OnMessageVoltage(p, capM) ==
  /\ h_pc = "idle"
  /\ subscriptions > 0
  /\ msgs < capM
  /\ msgs' = msgs + 1
  /\ last_malformed' = ~ValidPayload(p)
  /\ valid_pairs' = IF ValidPayload(p) THEN valid_pairs \cup {<<FloatValue(p.voltage), FloatValue(p.current)>>} ELSE valid_pairs
  /\ last_valid' = IF ValidPayload(p) THEN <<FloatValue(p.voltage), FloatValue(p.current)>> ELSE last_valid
  /\ h_during_read' = TRUE
  /\ IF p.json /\ AssignOk(p.voltage)
       THEN /\ live_voltage' = FloatValue(p.voltage)
            /\ h_pc' = "line51"
            /\ h_current' = p.current
            /\ h_exit' = "none"
            /\ pre_live' = <<live_voltage, live_current>>
            /\ h_changed' = FALSE
       ELSE /\ h_exit' = "caught"
            /\ h_changed' = FALSE
            /\ UNCHANGED <<live_voltage, h_pc, h_current, pre_live>>
  /\ UNCHANGED <<model_loaded, history_power, mqtt_connected, live_current, widgets, globals, pc>>
  /\ UNCHANGED <<ticks, inters, trigger, appended, connected_before, attempted, subscriptions>>

\* Lines 51-53: assign live_current, or swallow the exception.
OnMessageCurrent ==
  /\ h_pc = "line51"
  /\ h_pc' = "idle"
  /\ h_current' = <<"missing", 0>>
  /\ h_during_read' = TRUE
  /\ IF AssignOk(h_current)
       THEN /\ live_current' = FloatValue(h_current)
            /\ h_exit' = "normal"
       ELSE /\ h_exit' = "caught"
            /\ UNCHANGED live_current
  /\ h_changed' = (<<live_voltage, live_current'>> # pre_live)
  /\ pre_live' = <<DefaultVoltage, DefaultCurrent>>
  /\ UNCHANGED <<model_loaded, history_power, mqtt_connected, live_voltage, widgets, globals, pc>>
  /\ UNCHANGED <<ticks, msgs, inters, trigger, appended, connected_before, attempted, subscriptions, last_malformed, valid_pairs, last_valid>>

(***************************************************************************)
(* Specifications.                                                         *)
(***************************************************************************)
\* The steps of a script run.
TickStep(capT) ==
  \/ \E o \in ConnectOutcomes : ConnectAttempt(o)
  \/ ConnectSkip
  \/ SourceManual
  \/ SourceScenario
  \/ SourceLiveVoltage
  \/ SourceLiveCurrent
  \/ \E p \in PredictOutcomes(model_loaded) : Calculate(p)
  \/ Refresh
  \/ Rerun(capT)

\* The operator's interactions.
InteractionStep(capT, capI) ==
  \/ \E m \in Modes : ChangeMode(m, capT, capI)
  \/ \E v \in SliderVoltages : MoveVoltageSlider(v, capT, capI)
  \/ \E c \in SliderCurrents : MoveCurrentSlider(c, capT, capI)
  \/ \E s \in ScenarioNames : SelectScenario(s, capT, capI)

\* The steps of the network thread.
MessageStep(capM) ==
  \/ \E p \in Payloads : OnMessageVoltage(p, capM)
  \/ OnMessageCurrent

\* Few ticks, with every interleaving of messages, interactions and ticks.
Next == TickStep(MaxTicks) \/ InteractionStep(MaxTicks, MaxInteractions) \/ MessageStep(MaxMsgs)

Spec == Init /\ [][Next]_vars

\* Enough ticks to fill the history deque and evict from it, while the
\* broker stays silent (no message is published on the topic).
NextLong == TickStep(LongTicks) \/ InteractionStep(LongTicks, LongInteractions)

SpecLong == Init /\ [][NextLong]_vars

(***************************************************************************)
(* Properties.                                                             *)
(***************************************************************************)
\* The running tick has produced its decision (lines 106-142 are done).
Decided == pc \in {"refresh", "sleep", "idle"}

\* The sample the running tick obtained.
Sample == <<voltage_input, current_input>>

DefaultPair == <<DefaultVoltage, DefaultCurrent>>

\* The verdict the thresholds of the specification alone would give.
OutOfBand(v) == v < LowThreshold \/ v > HighThreshold

\* The last n entries of s.
LastN(s, n) == IF Len(s) <= n THEN s ELSE SubSeq(s, Len(s) - n + 1, Len(s))

\* C1: a tick whose sample has voltage < 180 or voltage > 250 ends with
\* the verdict ALERT and theft probability 0.98, whatever the model says.
C1_ThresholdForcesAlert == (Decided /\ OutOfBand(voltage_input)) => (status_color = "red" /\ theft_prob = 98)

\* C2: once on_message has returned from a malformed payload, live_voltage
\* and live_current are what they were when the message arrived, and the
\* handler did not raise.
C2_MalformedLeavesRemoteState == (h_pc = "idle" /\ last_malformed) => (~h_changed /\ h_exit # "raised")

\* C3: the pair a LIVE HARDWARE tick obtains is the default pair or the pair
\* of one single valid message.  Stated for the runs in which every message
\* delivered so far was valid (and different from the ones before), so that
\* only the interleaving of on_message with the two reads can break it.
C3_NoTornPair == (pc = "calc" /\ mode = LIVE /\ Cardinality(valid_pairs) = msgs) => Sample \in ({DefaultPair} \cup valid_pairs)

\* C4: history_power holds at most 50 entries, and they are the last 50
\* values appended, in the order appended, newest last.
C4_HistoryIsLastN == Len(history_power) <= HistoryMaxLen /\ history_power = LastN(appended, HistoryMaxLen)

\* C4 witness: more than 50 appends happened, and the buffer's newest entry
\* differs from its oldest.
C4_Witness == Len(appended) > HistoryMaxLen /\ history_power[Len(history_power)] # history_power[1]

\* C5: in every decision, theft_prob >= 0.5 iff the verdict is ALERT iff
\* health <= 0.5; the only outcomes are (0.05, 1.0, SECURE) and (0.98, 0.2, ALERT).
C5_ScoresAgree ==
  Decided =>
    /\ ((theft_prob >= 50) <=> (status_color = "red"))
    /\ ((status_color = "red") <=> (health <= 50))
    /\ <<theft_prob, health, status_color>> \in {<<5, 100, "green">>, <<98, 20, "red">>}

\* C5 witness: a tick decided ALERT.
C5_Witness == Decided /\ status_color = "red"

C7_SampleIsLatestValid == (pc = "calc" /\ mode = LIVE /\ h_pc = "idle" /\ ~h_during_read) => Sample = last_valid

\* C8: a tick is started by the script's own rerun only in LIVE HARDWARE
\* mode; a tick in that mode always reaches the sleep before st.rerun() and
\* the rerun needs no interaction; a tick in another mode ends idle.
C8_RerunIffLive ==
  /\ (trigger = "rerun" => mode = LIVE)
  /\ (pc = "idle" => mode # LIVE)
  /\ (pc = "sleep" => mode = LIVE)
  /\ ((pc = "sleep" /\ ticks < MaxTicks) => ENABLED Rerun(MaxTicks))

\* C8 witness: the third tick was started by the rerun of the second, after
\* the first had ended idle.
C8_Witness == trigger = "rerun" /\ ticks = 3 /\ inters = 1

\* C9: when energy_model.pkl cannot be loaded, the verdict is the one the
\* voltage thresholds alone give: ALERT iff voltage < 180 or voltage > 250.
C9_FallbackIsThresholdsOnly == (~model_loaded /\ Decided) => ((status_color = "red") <=> OutOfBand(voltage_input))

\* A step of on_message.
HandlerStep == msgs' # msgs \/ h_pc' # h_pc

\* The step of a tick that runs lines 99-107.
TickAppends == pc = "calc" /\ pc' # "calc"

\* What C10 says of one step.
C10_Step ==
  /\ HandlerStep => UNCHANGED <<history_power, mqtt_connected, appended>>
  /\ TickAppends =>
       /\ appended' = Append(appended, voltage_input * current_input)
       /\ history_power' # <<>>
       /\ history_power'[Len(history_power')] = voltage_input * current_input
       /\ SubSeq(history_power', 1, Len(history_power') - 1) = LastN(history_power, HistoryMaxLen - 1)
  /\ ~TickAppends => UNCHANGED <<history_power, appended>>
  /\ Len(appended') = IF pc' \in {"guard", "source", "line96", "calc"} THEN ticks' - 1 ELSE ticks'

\* C10: every tick appends exactly one entry, voltage * current of its own
\* sample, as the newest entry of history_power; no other step appends; a
\* step of on_message leaves history_power and mqtt_connected unchanged.
C10_OnlyTicksAppend == [][C10_Step]_vars

\* C10 witness: on_message handled a message and ticks appended twice.
C10_Witness == msgs > 0 /\ h_pc = "idle" /\ Len(history_power) >= 2

====
